---- MODULE Spec2Model ----
(***************************************************************************)
(* Model of the geojson-parent-linker programs: the ADM3 cascade           *)
(* (src/streamLinkParent_adm3.mjs), its earlier writers                    *)
(* (src/unnamed/part_001, src/test_adm3_first5.mjs), the key normalisation *)
(* they share, and the single-level linkers (src/linkParents.js,           *)
(* src/unnamed/part_000).                                                  *)
(*                                                                         *)
(* JavaScript values are rendered as follows.                              *)
(*   string            a sequence of code points, each code point named by *)
(*                     a TLA+ string ("M", "sp" for U+0020, "eacute" for   *)
(*                     U+00E9, ...); the empty string is << >>             *)
(*   null / undefined  the reserved one-element sequence Null              *)
(*   +-Infinity        the integers Inf and NegInf, outside the grid       *)
(*   a thrown error    the result "throw" of a predicate, err = TRUE of    *)
(*                     bbox                                                *)
(***************************************************************************)
EXTENDS Integers, Sequences, FiniteSets, TLC

\* ------------------------------------------------------------------------
\* Bounds of the model
\* ------------------------------------------------------------------------
MaxLabelLen == 2
MaxChildren == 2
MaxChunkSize == 2
MaxAdm1 == 2
MaxAdm2 == 2

\* ------------------------------------------------------------------------
\* JavaScript values
\* ------------------------------------------------------------------------
Null == <<"null">>

\* JavaScript truthiness of a string-or-null value: null, undefined and ""
\* are falsy.
Truthy(v) == v # Null /\ v # << >>

\* x || null
OrNull(v) == IF Truthy(v) THEN v ELSE Null

Inf == 99
NegInf == 0 - 99

isFinite(x) == x # Inf /\ x # NegInf

Min(a, b) == IF a <= b THEN a ELSE b
Max(a, b) == IF a >= b THEN a ELSE b

\* ------------------------------------------------------------------------
\* Key normalisation: s.toLowerCase().normalize('NFKD').replace(/[^\w]/g,'')
\* ------------------------------------------------------------------------
\* The code points of the model.  "eacute"/"Eacute" are U+00E9/U+00C9,
\* "acute" is the combining mark U+0301, "tm" is the compatibility
\* character U+2122 (NFKD: "TM"), "sp" "hy" "us" are space, hyphen, underscore.
AsciiLower == {"m", "p", "k", "e", "t"}
AsciiUpper == {"M", "P", "K", "E", "T"}
CodePoints == AsciiLower \cup AsciiUpper \cup
              {"eacute", "Eacute", "acute", "tm", "sp", "hy", "us"}

\* String.prototype.toLowerCase on one code point
toLowerCaseChar(c) ==
  CASE c = "M" -> "m"
    [] c = "P" -> "p"
    [] c = "K" -> "k"
    [] c = "E" -> "e"
    [] c = "T" -> "t"
    [] c = "Eacute" -> "eacute"
    [] OTHER -> c

\* String.prototype.normalize('NFKD') on one code point
nfkdChar(c) ==
  CASE c = "eacute" -> <<"e", "acute">>
    [] c = "Eacute" -> <<"E", "acute">>
    [] c = "tm" -> <<"T", "M">>
    [] OTHER -> <<c>>

\* the character class \w of a JavaScript regular expression: [A-Za-z0-9_]
isWordChar(c) == c \in AsciiLower \cup AsciiUpper \cup {"us"}

RECURSIVE toLowerCase(_)
toLowerCase(s) ==
  IF s = << >> THEN << >> ELSE <<toLowerCaseChar(Head(s))>> \o toLowerCase(Tail(s))

RECURSIVE nfkd(_)
nfkd(s) == IF s = << >> THEN << >> ELSE nfkdChar(Head(s)) \o nfkd(Tail(s))

RECURSIVE stripNonWord(_)
stripNonWord(s) ==
  IF s = << >> THEN << >>
  ELSE (IF isWordChar(Head(s)) THEN <<Head(s)>> ELSE << >>) \o stripNonWord(Tail(s))

normalizeKey(s) == stripNonWord(nfkd(toLowerCase(s)))

\* ------------------------------------------------------------------------
\* Geometry: the external geometry library (@turf/turf) over axis-aligned
\* rectangles.  A part is one polygon: r = <<minX, minY, maxX, maxY>>;
\* ok = FALSE is a malformed polygon, on which the predicates throw.
\* ------------------------------------------------------------------------
Part(x1, y1, x2, y2) == [r |-> <<x1, y1, x2, y2>>, ok |-> TRUE]
BadPart == [r |-> <<0, 0, 0, 0>>, ok |-> FALSE]

RectWithin(a, b) ==
  /\ b[1] <= a[1] /\ a[3] <= b[3]
  /\ b[2] <= a[2] /\ a[4] <= b[4]

RectIntersects(a, b) ==
  /\ a[1] <= b[3] /\ b[1] <= a[3]
  /\ a[2] <= b[4] /\ b[2] <= a[4]

RectOverlap(a, b) ==
  /\ a[1] < b[3] /\ b[1] < a[3]
  /\ a[2] < b[4] /\ b[2] < a[4]
  /\ ~RectWithin(a, b) /\ ~RectWithin(b, a)

Bool3(b) == IF b THEN "true" ELSE "false"

booleanWithin(a, b) ==
  IF ~a.ok \/ ~b.ok THEN "throw" ELSE Bool3(RectWithin(a.r, b.r))
booleanIntersects(a, b) ==
  IF ~a.ok \/ ~b.ok THEN "throw" ELSE Bool3(RectIntersects(a.r, b.r))
booleanOverlap(a, b) ==
  IF ~a.ok \/ ~b.ok THEN "throw" ELSE Bool3(RectOverlap(a.r, b.r))

\* x || y inside a try block: a throw of x is the result, a true x
\* short-circuits, otherwise y decides.
OrElse(x, y) == IF x = "throw" THEN "throw" ELSE IF x = "true" THEN "true" ELSE y

\* ------------------------------------------------------------------------
\* Features
\* ------------------------------------------------------------------------
NoGeometry == [type |-> "null", coordinates |-> << >>]
Polygon(p) == [type |-> "Polygon", coordinates |-> <<p>>]
MultiPolygon(ps) == [type |-> "MultiPolygon", coordinates |-> ps]
Point(x, y) == [type |-> "Point", coordinates |-> <<Part(x, y, x, y)>>]

Props(id, name, pid, pname, sname, pstate) ==
  [shapeID |-> id, shapeName |-> name, parent_id |-> pid, parent_name |-> pname,
   state_name |-> sname, parent_state |-> pstate]
CleanProps(id, name) == Props(id, name, Null, Null, Null, Null)
Old == <<"old">>
StaleProps(id, name) == Props(id, name, Old, Old, Old, Old)
NoProps == CleanProps(Null, Null)

Feature(props, geom) ==
  [isNull |-> FALSE, hasProps |-> TRUE, properties |-> props, geometry |-> geom,
   bboxThrows |-> FALSE]
NullFeature ==
  [isNull |-> TRUE, hasProps |-> FALSE, properties |-> NoProps, geometry |-> NoGeometry,
   bboxThrows |-> TRUE]

\* !feature || !feature.properties || !feature.geometry
Invalid(f) == f.isNull \/ ~f.hasProps \/ f.geometry.type = "null"

\* bbox(feature) of the geometry library: the fold of min/max over all
\* coordinates, from the seed of infinities; err = TRUE when it throws.
SeedBox == <<Inf, Inf, NegInf, NegInf>>

\* a merge that keeps the first box it was given
WidenFirst(box, r) == IF box = <<Inf, Inf, NegInf, NegInf>> THEN r ELSE box

Widen(box, r) ==
  <<Min(box[1], r[1]), Min(box[2], r[2]), Max(box[3], r[3]), Max(box[4], r[4])>>

RECURSIVE FoldBox(_, _)
FoldBox(box, parts) ==
  IF parts = << >> THEN box ELSE FoldBox(Widen(box, Head(parts).r), Tail(parts))

bbox(f) ==
  IF f.isNull \/ f.bboxThrows THEN [err |-> TRUE, box |-> SeedBox]
  ELSE [err |-> FALSE, box |-> FoldBox(SeedBox, f.geometry.coordinates)]

\* getPolygons of the ADM3 cascade (with its guards)
getPolygons(f) ==
  IF f.isNull \/ f.geometry.type = "null" THEN << >>
  ELSE IF f.geometry.type = "Polygon" THEN f.geometry.coordinates
  ELSE IF f.geometry.type = "MultiPolygon" THEN f.geometry.coordinates
  ELSE << >>

\* ------------------------------------------------------------------------
\* The files the runs are checked on
\* ------------------------------------------------------------------------
NameMP == <<"M", "sp", "P">>
NameK == <<"K">>

\* ADM1 (states)
StateA == Feature(CleanProps(<<"s1">>, NameMP), Polygon(Part(0, 0, 4, 4)))
StateB == Feature(CleanProps(<<"s2">>, NameK),
                  MultiPolygon(<<BadPart, Part(3, 0, 7, 4)>>))
StateE == Feature(CleanProps(<<"s3">>, << >>), Polygon(Part(0, 0, 7, 4)))
StateF == [Feature(CleanProps(<<"s4">>, <<"T">>), Polygon(Part(0, 0, 7, 4)))
             EXCEPT !.bboxThrows = TRUE]
\* a state named "-": a name that is not empty and whose key is
StateH == Feature(CleanProps(<<"s5">>, <<"hy">>), Polygon(Part(8, 8, 9, 9)))
Adm1Pool == <<StateF, StateA, StateB, StateE, StateH>>

\* ADM2 (districts), as written by the ADM2 linker: parent_name is the state
DistX == Feature(Props(<<"d1">>, <<"P">>, <<"s1">>, <<"m", "hy", "p">>, Null, Null),
                 Polygon(Part(0, 0, 3, 3)))
DistY == Feature(Props(<<"d2">>, <<"E">>, <<"s1">>, NameMP, Null, Null),
                 Polygon(Part(2, 0, 4, 4)))
DistK == Feature(Props(<<"d4">>, <<"T">>, <<"s2">>, <<"k">>, Null, Null),
                 MultiPolygon(<<BadPart, Part(4, 0, 7, 4)>>))
DistN == Feature(Props(<<"d5">>, <<"M">>, Null, Null, Null, Null),
                 Polygon(Part(0, 0, 7, 4)))
\* a district whose parent label is " "
DistH == Feature(Props(<<"d6">>, <<"K">>, <<"s5">>, <<"sp">>, Null, Null),
                 Polygon(Part(8, 8, 9, 9)))
Adm2Pool == {DistX, DistY, DistK, DistN, DistH}

\* ADM3 (children)
ChildIn == Feature(CleanProps(<<"c1">>, <<"e">>), Polygon(Part(1, 1, 2, 2)))
ChildMid == Feature(StaleProps(<<"c2">>, <<"m">>), Polygon(Part(4, 1, 4, 2)))
ChildFar == Feature(StaleProps(<<"c3">>, <<"k">>), Polygon(Part(9, 9, 9, 9)))
ChildMulti == Feature(CleanProps(<<"c4">>, <<"p">>),
                      MultiPolygon(<<BadPart, Part(5, 1, 6, 2)>>))
ChildNoBox == [Feature(CleanProps(<<"c6">>, <<"t">>), Polygon(Part(1, 1, 2, 2)))
                 EXCEPT !.bboxThrows = TRUE]
ChildPoint == Feature(CleanProps(<<"c7">>, <<"e">>), Point(1, 1))
ChildEmpty == Feature(CleanProps(<<"c8">>, <<"e">>), MultiPolygon(<< >>))
ChildNoGeom == Feature(CleanProps(<<"c9">>, <<"e">>), NoGeometry)
ChildPool == {ChildIn, ChildMid, ChildFar, ChildMulti, ChildNoBox, ChildPoint,
              ChildEmpty, ChildNoGeom, NullFeature}

\* sequences over a set, of length at most n
SeqsUpTo(S, n) == UNION {[1..k -> S] : k \in 0..n}

IsInjective(s) == \A a, b \in DOMAIN s : s[a] = s[b] => a = b

\* the subsequences of a sequence, in its order
RECURSIVE SubSeqs(_)
SubSeqs(s) ==
  IF s = << >> THEN {<< >>}
  ELSE LET rest == SubSeqs(Tail(s)) IN rest \cup {<<Head(s)>> \o t : t \in rest}

PermsOf(n) == {p \in [1..n -> 1..n] : IsInjective(p)}

\* ------------------------------------------------------------------------
\* Index Builder and Grouping Table
\* ------------------------------------------------------------------------
\* adm1Data.features.map(...).filter(box => box !== null): one entry per
\* feature whose bbox was computed; index is the position in the file.
RECURSIVE adm1BoxesFrom(_, _)
adm1BoxesFrom(features, index) ==
  IF index > Len(features) THEN << >>
  ELSE LET f == features[index]
           b == bbox(f)
       IN (IF b.err \/ ~f.hasProps THEN << >>
           ELSE <<[box |-> b.box, index |-> index,
                   shapeName |-> f.properties.shapeName]>>)
          \o adm1BoxesFrom(features, index + 1)

\* entries numbered after the filter, by their position among the kept ones
adm1BoxesRenumbered(features) ==
  [k \in DOMAIN adm1BoxesFrom(features, 1) |->
     [adm1BoxesFrom(features, 1)[k] EXCEPT !.index = k]]

adm1Boxes(features) == adm1BoxesFrom(features, 1)

\* RBush: load keeps the entries in an order of its own (order is a
\* permutation of the loaded entries), search returns in that order the
\* entries whose box intersects the query, all returns every entry.
RBushLoad(entries, order) == [k \in 1..Len(entries) |-> entries[order[k]]]

BoxIntersects(e, q) == RectIntersects(e.box, q)

RBushSearch(tree, q) == SelectSeq(tree, LAMBDA e : BoxIntersects(e, q))

RBushAll(tree) == tree

\* the key a level-2 feature is grouped under
GroupKey(f) == normalizeKey(f.properties.parent_name)

\* adm2Data.features.forEach: has / set / get(...).push({index, feature})
MapHas(map, key) == key \in DOMAIN map
MapPush(map, key, e) ==
  IF MapHas(map, key) THEN [map EXCEPT ![key] = Append(@, e)]
  ELSE [k \in DOMAIN map \cup {key} |-> IF k = key THEN <<e>> ELSE map[k]]
EmptyMap == [k \in {} |-> << >>]

RECURSIVE groupAdm2(_, _, _)
groupAdm2(map, features, index) ==
  IF index > Len(features) THEN map
  ELSE LET f == features[index] IN
       IF f.hasProps /\ Truthy(f.properties.parent_name)
       THEN groupAdm2(MapPush(map, GroupKey(f), [index |-> index, feature |-> f]),
                      features, index + 1)
       ELSE groupAdm2(map, features, index + 1)

\* adm2ByState.get(key) || []
MapGetOrEmpty(map, key) == IF MapHas(map, key) THEN map[key] ELSE << >>

\* ------------------------------------------------------------------------
\* Cascade Matcher: processFeature
\* ------------------------------------------------------------------------
WithinOrIntersects(a, b) == OrElse(booleanWithin(a, b), booleanIntersects(a, b))

WithinOverlapOrIntersects(a, b) ==
  OrElse(booleanWithin(a, b), OrElse(booleanOverlap(a, b), booleanIntersects(a, b)))

\* Level 1.  st = [matchedState, assigned]: the local matchedState and
\* whether childFeature.properties.parent_state was assigned (to it).
\* Innermost loop, over the parts of the candidate from part k on.
\* the same loop with a catch that leaves the loop
RECURSIVE Step1PartsAbort(_, _, _, _)
Step1PartsAbort(polyChild, adm1Feature, k, st) ==
  LET polys == getPolygons(adm1Feature) IN
  IF k > Len(polys) THEN st
  ELSE LET r == WithinOrIntersects(polyChild, polys[k]) IN
       IF r = "true"
       THEN [matchedState |-> adm1Feature.properties.shapeName, assigned |-> TRUE]
       ELSE IF r = "throw" THEN st
       ELSE IF Truthy(st.matchedState) THEN st
       ELSE Step1PartsAbort(polyChild, adm1Feature, k + 1, st)

RECURSIVE Step1Parts(_, _, _, _)
Step1Parts(polyChild, adm1Feature, k, st) ==
  LET polys == getPolygons(adm1Feature) IN
  IF k > Len(polys) THEN st
  ELSE LET r == WithinOrIntersects(polyChild, polys[k]) IN
       IF r = "true"
       THEN [matchedState |-> adm1Feature.properties.shapeName, assigned |-> TRUE]
       ELSE IF r = "throw" THEN Step1Parts(polyChild, adm1Feature, k + 1, st)
       ELSE IF Truthy(st.matchedState) THEN st
       ELSE Step1Parts(polyChild, adm1Feature, k + 1, st)

\* loop over the child's parts, from part j on
RECURSIVE Step1Child(_, _, _, _)
Step1Child(childPolygons, adm1Feature, j, st) ==
  IF j > Len(childPolygons) THEN st
  ELSE LET st2 == Step1Parts(childPolygons[j], adm1Feature, 1, st) IN
       IF Truthy(st2.matchedState) THEN st2
       ELSE Step1Child(childPolygons, adm1Feature, j + 1, st2)

\* the same loop left at the first candidate with a matching pair,
\* whatever its name
RECURSIVE Step1StopAtMatch(_, _, _, _, _)
Step1StopAtMatch(adm1Candidates, features, childPolygons, c, st) ==
  IF c > Len(adm1Candidates) THEN st
  ELSE LET adm1Feature == features[adm1Candidates[c].index] IN
       IF adm1Feature.isNull \/ ~adm1Feature.hasProps
       THEN Step1StopAtMatch(adm1Candidates, features, childPolygons, c + 1, st)
       ELSE LET st2 == Step1Child(childPolygons, adm1Feature, 1, st) IN
            IF st2.assigned THEN st2
            ELSE Step1StopAtMatch(adm1Candidates, features, childPolygons, c + 1, st2)

\* loop over the candidates, from candidate c on
RECURSIVE Step1(_, _, _, _, _)
Step1(adm1Candidates, features, childPolygons, c, st) ==
  IF c > Len(adm1Candidates) THEN st
  ELSE LET adm1Feature == features[adm1Candidates[c].index] IN
       IF adm1Feature.isNull \/ ~adm1Feature.hasProps
       THEN Step1(adm1Candidates, features, childPolygons, c + 1, st)
       ELSE LET st2 == Step1Child(childPolygons, adm1Feature, 1, st) IN
            IF Truthy(st2.matchedState) THEN st2
            ELSE Step1(adm1Candidates, features, childPolygons, c + 1, st2)

\* Level 2.  st = [foundParent, parent_id, parent_name, visited]; visited
\* counts the candidates whose part pairs the loop went into.
RECURSIVE Step2Parts(_, _, _, _)
Step2Parts(polyChild, adm2Feature, k, st) ==
  LET polys == getPolygons(adm2Feature) IN
  IF k > Len(polys) THEN st
  ELSE LET r == WithinOverlapOrIntersects(polyChild, polys[k]) IN
       IF r = "throw" THEN Step2Parts(polyChild, adm2Feature, k + 1, st)
       ELSE LET st2 == IF r = "true" /\ ~st.foundParent
                       THEN [foundParent |-> TRUE,
                             parent_id |-> OrNull(adm2Feature.properties.shapeID),
                             parent_name |-> OrNull(adm2Feature.properties.shapeName),
                             visited |-> st.visited]
                       ELSE st
            IN IF st2.foundParent THEN st2
               ELSE Step2Parts(polyChild, adm2Feature, k + 1, st2)

RECURSIVE Step2Child(_, _, _, _)
Step2Child(childPolygons, adm2Feature, j, st) ==
  IF j > Len(childPolygons) THEN st
  ELSE LET st2 == Step2Parts(childPolygons[j], adm2Feature, 1, st) IN
       IF st2.foundParent THEN st2
       ELSE Step2Child(childPolygons, adm2Feature, j + 1, st2)

\* the same loop without the break behind a found parent
RECURSIVE Step2NoBreak(_, _, _, _)
Step2NoBreak(adm2Candidates, childPolygons, c, st) ==
  IF c > Len(adm2Candidates) THEN st
  ELSE LET adm2Feature == adm2Candidates[c].feature IN
       IF adm2Feature.isNull \/ ~adm2Feature.hasProps
       THEN Step2NoBreak(adm2Candidates, childPolygons, c + 1, st)
       ELSE Step2NoBreak(adm2Candidates, childPolygons, c + 1,
                         Step2Child(childPolygons, adm2Feature, 1,
                                    [st EXCEPT !.visited = @ + 1]))

RECURSIVE Step2(_, _, _, _)
Step2(adm2Candidates, childPolygons, c, st) ==
  IF c > Len(adm2Candidates) THEN st
  ELSE LET adm2Feature == adm2Candidates[c].feature IN
       IF adm2Feature.isNull \/ ~adm2Feature.hasProps
       THEN Step2(adm2Candidates, childPolygons, c + 1, st)
       ELSE LET st2 == Step2Child(childPolygons, adm2Feature, 1,
                                  [st EXCEPT !.visited = @ + 1]) IN
            IF st2.foundParent THEN st2
            ELSE Step2(adm2Candidates, childPolygons, c + 1, st2)

\* a lookup under the name as it is
LookupKeyRaw(matchedState) == matchedState

\* the key a level-1 winner's name is looked up under
LookupKey(matchedState) == normalizeKey(matchedState)

\* the candidates of level 1: box ? adm1Tree.search(box) : adm1Tree.all()
Adm1Candidates(tree, b) == RBushSearch(tree, b.box)

\* The result of processFeature: the child's properties as it leaves them,
\* and what it did (ended: where it returned; lookedUp: adm2ByState.get
\* was called; visited: the level-2 candidates the loop of step 2 went into).
Outcome(props, ended, matchedState, foundParent, lookedUp) ==
  [properties |-> props, ended |-> ended, matchedState |-> matchedState,
   foundParent |-> foundParent, lookedUp |-> lookedUp, visited |-> 0]

\* a level 1 that does not assign parent_state
AfterLevel1Skip(props, st1) == props

\* childFeature.properties after level 1
AfterLevel1(props, st1) ==
  IF st1.assigned THEN [props EXCEPT !.parent_state = st1.matchedState] ELSE props

\* the end of step 2: the winner's identity, or the level-1 fallback
Level2Outcome(props1, matchedState, st2) ==
  IF st2.foundParent
  THEN [Outcome([props1 EXCEPT !.parent_id = st2.parent_id,
                               !.parent_name = st2.parent_name],
                "matched", matchedState, TRUE, TRUE)
          EXCEPT !.visited = st2.visited]
  ELSE [Outcome([props1 EXCEPT !.parent_name = matchedState,
                               !.state_name = matchedState],
                "level1", matchedState, FALSE, TRUE)
          EXCEPT !.visited = st2.visited]

\* step 2: look the state's group up and scan it
Level2(props1, matchedState, childPolygons, groups) ==
  Level2Outcome(props1, matchedState,
                Step2(MapGetOrEmpty(groups, LookupKey(matchedState)), childPolygons, 1,
                      [foundParent |-> FALSE, parent_id |-> props1.parent_id,
                       parent_name |-> props1.parent_name, visited |-> 0]))

\* if (matchedState) { step 2 } else { warn }
AfterStep1(props, st1, childPolygons, groups) ==
  IF Truthy(st1.matchedState)
  THEN Level2(AfterLevel1(props, st1), st1.matchedState, childPolygons, groups)
  ELSE Outcome(AfterLevel1(props, st1), "unmatched", st1.matchedState, FALSE, FALSE)

\* step 1 on the candidates of the child's box
Cascade(childFeature, b, tree, features, groups) ==
  AfterStep1(childFeature.properties,
             Step1(Adm1Candidates(tree, b), features, getPolygons(childFeature), 1,
                   [matchedState |-> Null, assigned |-> FALSE]),
             getPolygons(childFeature), groups)

processFeature(childFeature, tree, features, groups) ==
  IF Invalid(childFeature)
  THEN Outcome(childFeature.properties, "invalid", Null, FALSE, FALSE)
  ELSE IF bbox(childFeature).err
  THEN Outcome(childFeature.properties, "bbox", Null, FALSE, FALSE)
  ELSE IF Len(getPolygons(childFeature)) = 0
  THEN Outcome(childFeature.properties, "nopolygons", Null, FALSE, FALSE)
  ELSE Cascade(childFeature, bbox(childFeature), tree, features, groups)

\* ------------------------------------------------------------------------
\* The output file, as the sequence of the text pieces written to it
\* ------------------------------------------------------------------------
\* JSON.stringify of a number: Infinity and -Infinity are written as null
JsonNull == 0 - 1
JsonNumber(x) == IF isFinite(x) THEN x ELSE JsonNull
JsonBox(box) == [k \in 1..4 |-> JsonNumber(box[k])]

\* "open" is {"type":"FeatureCollection","features":[   "record" is one
\* serialized feature, "comma" "lbracket" "rbracket" "rbrace" are , [ ] }
\* and "bbox" is "bbox":[...]
Piece(kind) == [kind |-> kind, properties |-> NoProps, bbox |-> << >>]
RecordPiece(props, box) == [kind |-> "record", properties |-> props, bbox |-> box]
BboxPiece(box) == [kind |-> "bbox", properties |-> NoProps, bbox |-> JsonBox(box)]

\* the properties of an output feature
OutputProperties(p) ==
  [shapeID |-> OrNull(p.shapeID), shapeName |-> OrNull(p.shapeName),
   parent_id |-> OrNull(p.parent_id), parent_name |-> OrNull(p.parent_name),
   state_name |-> OrNull(p.state_name), parent_state |-> OrNull(p.parent_state)]

\* the running box replaced by the box of the feature
UpdateOverallReplace(overall, b) == IF b.err THEN overall ELSE b.box

\* overallBbox[k] = Math.min / Math.max (overallBbox[k], featureBbox[k])
UpdateOverall(overall, b) == IF b.err THEN overall ELSE Widen(overall, b.box)

\* overallBbox.every(coord => isFinite(coord))
validBbox(overall) == \A k \in 1..4 : isFinite(overall[k])

\* ------------------------------------------------------------------------
\* State
\* ------------------------------------------------------------------------
VARIABLES
  prog,           \* which program runs: "stream", "chunk", "first10", a single-level
                  \* linker ("memory", "adm1stream", "adm2stream"), or "none"
  pc,             \* "start", "loaded", "loop", "flushed", "done", "exit"; "off" when prog = "none"
  files,          \* the three input files: "ok", "missing" or "unparsable"
  exitCode,       \* the status of process.exit, 0 while none
  adm1Data, adm2Data, adm3Data,   \* the features arrays of the parsed files
  adm1Tree,       \* the loaded RBush
  adm2ByState,    \* Map: normalized state name -> [{index, feature}]
  chunkSize, i, chunkIndex,       \* the chunk loop
  overallBbox, processedCount,
  output,         \* the content of the output file
  adm3Input,      \* history: adm3Data as it was parsed
  diags,          \* history: one entry per record the streaming run appended
  labelA, labelB, keyA, keyB, rekeyA, npc   \* the key normalizer on its own

cascadeVars == <<adm1Data, adm2Data, adm3Data, adm1Tree, adm2ByState, chunkSize,
                 i, chunkIndex, overallBbox, processedCount, output, adm3Input, diags>>
normVars == <<labelA, labelB, keyA, keyB, rekeyA, npc>>
vars == <<prog, pc, files, exitCode, cascadeVars, normVars>>

FileNames == {"adm1", "adm2", "adm3"}
Programs == {"stream", "chunk", "first10"}

NormIdle ==
  /\ labelA = << >> /\ labelB = << >> /\ keyA = << >> /\ keyB = << >>
  /\ rekeyA = << >> /\ npc = "off"

CascadeIdle ==
  /\ adm1Data = << >> /\ adm2Data = << >> /\ adm3Data = << >>
  /\ adm1Tree = << >> /\ adm2ByState = EmptyMap
  /\ chunkSize = 1 /\ i = 0 /\ chunkIndex = 0
  /\ overallBbox = SeedBox /\ processedCount = 0
  /\ output = << >> /\ adm3Input = << >> /\ diags = << >>

Init ==
  /\ prog \in Programs
  /\ pc = "start"
  /\ files \in [FileNames -> {"ok", "missing", "unparsable"}]
  /\ exitCode = 0
  /\ CascadeIdle
  /\ NormIdle

\* ------------------------------------------------------------------------
\* The inputs of a run
\* ------------------------------------------------------------------------
Adm1Files == {s \in SubSeqs(Adm1Pool) : Len(s) <= MaxAdm1}
Adm2Files == {s \in SeqsUpTo(Adm2Pool, MaxAdm2) : IsInjective(s)}
Adm3Files == SeqsUpTo(ChildPool, MaxChildren)

\* Runs over several children are checked on the small ADM1/ADM2 files,
\* runs over at most one child on all of them.
SmallAdm1Files == {<< >>, <<StateA>>}
SmallAdm2Files == {<< >>, <<DistX>>}
Adm1FilesFor(a3) == IF Len(a3) <= 1 THEN Adm1Files ELSE SmallAdm1Files
Adm2FilesFor(a3) == IF Len(a3) <= 1 THEN Adm2Files ELSE SmallAdm2Files
ChunkSizesFor(a3) == IF Len(a3) <= 1 THEN {1} ELSE 1..MaxChunkSize

\* only the existence checks, a file that does not parse goes unnoticed
AllFilesExist == \A f \in FileNames : files[f] # "missing"

AllFilesOk == \A f \in FileNames : files[f] = "ok"

\* what every program does with the parsed files before its loop
Loaded(a1, order, a2, a3, cs) ==
  /\ adm1Data' = a1
  /\ adm2Data' = a2
  /\ adm3Data' = a3
  /\ adm3Input' = a3
  /\ adm1Tree' = RBushLoad(adm1Boxes(a1), order)
  /\ adm2ByState' = groupAdm2(EmptyMap, a2, 1)
  /\ chunkSize' = cs
  /\ i' = 0
  /\ chunkIndex' = 0
  /\ overallBbox' = SeedBox
  /\ processedCount' = 0
  /\ UNCHANGED <<output, diags>>

Fatal ==
  /\ pc' = "exit"
  /\ exitCode' = 1

\* ------------------------------------------------------------------------
\* The streaming ADM3 run
\* ------------------------------------------------------------------------
\* existence checks, JSON.parse of the three files, index and grouping
Load ==
  /\ prog = "stream" /\ pc = "start"
  /\ IF ~AllFilesOk
     THEN Fatal /\ UNCHANGED cascadeVars
     ELSE /\ \E a3 \in Adm3Files :
             \E a1 \in Adm1FilesFor(a3), a2 \in Adm2FilesFor(a3), cs \in ChunkSizesFor(a3) :
             \E order \in PermsOf(Len(adm1Boxes(a1))) :
                Loaded(a1, order, a2, a3, cs)
          /\ pc' = "loaded"
          /\ UNCHANGED exitCode
  /\ UNCHANGED <<prog, files, normVars>>

\* fs.writeFileSync(out, '{"type":"FeatureCollection","features":[\n')
WriteHeader ==
  /\ prog = "stream" /\ pc = "loaded"
  /\ output' = <<Piece("open")>>
  /\ pc' = "loop"
  /\ UNCHANGED <<prog, files, exitCode, adm1Data, adm2Data, adm3Data, adm1Tree,
                 adm2ByState, chunkSize, i, chunkIndex, overallBbox, processedCount,
                 adm3Input, diags, normVars>>

totalFeatures == Len(adm3Data)

\* a slice that stops one feature short of the chunk
ChunkLengthShort == Min(chunkSize, Max(Len(adm3Data) - i, 0)) - 1

\* chunk = adm3Data.features.slice(i, i + chunkSize); chunk.length
ChunkLength == Min(chunkSize, Max(totalFeatures - i, 0))

InChunk == pc = "loop" /\ i < totalFeatures /\ chunkIndex < ChunkLength

globalIndex == i + chunkIndex

\* the feature of the current forEach call
CurrentFeature == adm3Data[globalIndex + 1]

\* forEach callback on a structurally invalid feature: warn and return
SkipInvalidFeature ==
  /\ prog = "stream" /\ InChunk
  /\ Invalid(CurrentFeature)
  /\ chunkIndex' = chunkIndex + 1
  /\ UNCHANGED <<prog, pc, files, exitCode, adm1Data, adm2Data, adm3Data, adm1Tree,
                 adm2ByState, chunkSize, i, overallBbox, processedCount, output,
                 adm3Input, diags, normVars>>

\* a separator that closes the document behind the last feature
SeparatorClosing(g, total) ==
  IF g = total - 1 THEN <<Piece("rbracket"), Piece("rbrace")>> ELSE <<Piece("comma")>>

\* isLast ? '\n' : ',\n'
Separator(g, total) == IF g = total - 1 THEN << >> ELSE <<Piece("comma")>>

\* the per-feature bbox of the output feature: null when bbox throws
FeatureBbox(b) == IF b.err THEN << >> ELSE JsonBox(b.box)

\* the history entry of one appended record
Diag(g, res, out) ==
  [index |-> g, ended |-> res.ended, matchedState |-> res.matchedState,
   foundParent |-> res.foundParent, lookedUp |-> res.lookedUp,
   visited |-> res.visited, out |-> out]

\* the rest of the callback, once processFeature has returned res
Emit(res, b) ==
  /\ adm3Data' = [adm3Data EXCEPT ![globalIndex + 1].properties = res.properties]
  /\ overallBbox' = UpdateOverall(overallBbox, b)
  /\ output' = output
                \o <<RecordPiece(OutputProperties(res.properties), FeatureBbox(b))>>
                \o Separator(globalIndex, totalFeatures)
  /\ diags' = Append(diags, Diag(globalIndex, res, OutputProperties(res.properties)))
  /\ processedCount' = processedCount + 1
  /\ chunkIndex' = chunkIndex + 1

\* forEach callback on a valid feature: processFeature, overall bbox,
\* outputFeature, append
EmitFeature ==
  /\ prog = "stream" /\ InChunk
  /\ ~Invalid(CurrentFeature)
  /\ Emit(processFeature(CurrentFeature, adm1Tree, adm1Data, adm2ByState),
          bbox(CurrentFeature))
  /\ UNCHANGED <<prog, pc, files, exitCode, adm1Data, adm2Data, adm1Tree, adm2ByState,
                 chunkSize, i, adm3Input, normVars>>

\* end of a chunk: i += chunkSize
NextChunk ==
  /\ prog = "stream" /\ pc = "loop"
  /\ i < totalFeatures /\ chunkIndex = ChunkLength
  /\ i' = i + chunkSize
  /\ chunkIndex' = 0
  /\ UNCHANGED <<prog, pc, files, exitCode, adm1Data, adm2Data, adm3Data, adm1Tree,
                 adm2ByState, chunkSize, overallBbox, processedCount, output,
                 adm3Input, diags, normVars>>

\* after the loop: ],"bbox":[...]} when the box is finite, ]} otherwise
Close ==
  /\ prog = "stream" /\ pc = "loop"
  /\ i >= totalFeatures
  /\ output' = output \o
       (IF validBbox(overallBbox)
        THEN <<Piece("rbracket"), Piece("comma"), BboxPiece(overallBbox), Piece("rbrace")>>
        ELSE <<Piece("rbracket"), Piece("rbrace")>>)
  /\ pc' = "done"
  /\ UNCHANGED <<prog, files, exitCode, adm1Data, adm2Data, adm3Data, adm1Tree,
                 adm2ByState, chunkSize, i, chunkIndex, overallBbox, processedCount,
                 adm3Input, diags, normVars>>

\* ------------------------------------------------------------------------
\* The earlier programs writing the same output: the chunk writer and the
\* first-10 test writer.  Their processFeature and getPolygons have no
\* guards, so a property read of a null feature, of absent properties or of
\* an absent geometry is a TypeError that ends the run in the outer catch.
\* ------------------------------------------------------------------------
\* the grouping without guard: parent_name.toLowerCase() of an absent label
GroupingThrows(a2) == \E k \in DOMAIN a2 : ~Truthy(a2[k].properties.parent_name)

LegacyLoad ==
  /\ prog \in {"chunk", "first10"} /\ pc = "start"
  /\ IF ~AllFilesOk
     THEN Fatal /\ UNCHANGED cascadeVars
     ELSE \E a3 \in Adm3Files :
          \E a1 \in Adm1FilesFor(a3), a2 \in Adm2FilesFor(a3), cs \in ChunkSizesFor(a3) :
          \E order \in PermsOf(Len(adm1Boxes(a1))) :
             IF GroupingThrows(a2)
             THEN Fatal /\ UNCHANGED cascadeVars
             ELSE /\ Loaded(a1, order, a2, a3, cs)
                  /\ pc' = "loop"
                  /\ UNCHANGED exitCode
  /\ UNCHANGED <<prog, files, normVars>>

\* processFeature without guards throws out of the run on these features
LegacyThrows(f) ==
  \/ f.isNull
  \/ ~f.hasProps
  \/ (~bbox(f).err /\ f.geometry.type = "null")

\* chunk.forEach of the chunk writer: processFeature, then bbox(feature)
\* outside any try
ChunkFeature ==
  /\ prog = "chunk" /\ InChunk
  /\ IF LegacyThrows(CurrentFeature) \/ bbox(CurrentFeature).err
     THEN /\ Fatal
          /\ UNCHANGED <<adm3Data, overallBbox, chunkIndex>>
     ELSE /\ adm3Data' = [adm3Data EXCEPT ![globalIndex + 1].properties =
                    processFeature(CurrentFeature, adm1Tree, adm1Data,
                                   adm2ByState).properties]
          /\ overallBbox' = UpdateOverall(overallBbox, bbox(CurrentFeature))
          /\ chunkIndex' = chunkIndex + 1
          /\ UNCHANGED <<pc, exitCode>>
  /\ UNCHANGED <<prog, files, adm1Data, adm2Data, adm1Tree, adm2ByState, chunkSize, i,
                 processedCount, output, adm3Input, diags, normVars>>

\* JSON.stringify of an array of output features, without per-feature bbox
RECURSIVE JoinRecords(_)
JoinRecords(fs) ==
  IF fs = << >> THEN << >>
  ELSE <<RecordPiece(OutputProperties(Head(fs).properties), << >>)>>
       \o (IF Tail(fs) = << >> THEN << >> ELSE <<Piece("comma")>>)
       \o JoinRecords(Tail(fs))

JsonArray(fs) == <<Piece("lbracket")>> \o JoinRecords(fs) \o <<Piece("rbracket")>>

\* end of a chunk of the chunk writer: append the chunk and its separator
ChunkFlush ==
  /\ prog = "chunk" /\ pc = "loop"
  /\ i < totalFeatures /\ chunkIndex = ChunkLength
  /\ output' = output \o JsonArray(SubSeq(adm3Data, i + 1, i + ChunkLength))
                      \o (IF i + chunkSize < totalFeatures THEN <<Piece("comma")>>
                          ELSE <<Piece("rbracket")>>)
  /\ pc' = "flushed"
  /\ UNCHANGED <<prog, files, exitCode, adm1Data, adm2Data, adm3Data, adm1Tree,
                 adm2ByState, chunkSize, i, chunkIndex, overallBbox, processedCount,
                 adm3Input, diags, normVars>>

\* the statement behind the append: for the first chunk, writeFileSync of
\* the header over the file; then i += chunkSize
ChunkHeader ==
  /\ prog = "chunk" /\ pc = "flushed"
  /\ output' = IF i = 0 THEN <<Piece("open")>> ELSE output
  /\ i' = i + chunkSize
  /\ chunkIndex' = 0
  /\ pc' = "loop"
  /\ UNCHANGED <<prog, files, exitCode, adm1Data, adm2Data, adm3Data, adm1Tree,
                 adm2ByState, chunkSize, overallBbox, processedCount, adm3Input, diags,
                 normVars>>

\* after the loop of the chunk writer: ,"bbox":[...]} when there are features
ChunkClose ==
  /\ prog = "chunk" /\ pc = "loop"
  /\ i >= totalFeatures
  /\ output' = IF totalFeatures > 0
               THEN output \o <<Piece("comma"), BboxPiece(overallBbox), Piece("rbrace")>>
               ELSE output
  /\ pc' = "done"
  /\ UNCHANGED <<prog, files, exitCode, adm1Data, adm2Data, adm3Data, adm1Tree,
                 adm2ByState, chunkSize, i, chunkIndex, overallBbox, processedCount,
                 adm3Input, diags, normVars>>

\* adm3Data.features.slice(0, 10)
FirstN == 10
first10Features == SubSeq(adm3Data, 1, Min(FirstN, Len(adm3Data)))

\* first10Features.forEach of the test writer: processFeature, then the
\* overall bbox inside a try
First10Feature ==
  /\ prog = "first10" /\ pc = "loop"
  /\ chunkIndex < Len(first10Features)
  /\ IF LegacyThrows(adm3Data[chunkIndex + 1])
     THEN /\ Fatal
          /\ UNCHANGED <<adm3Data, overallBbox, chunkIndex>>
     ELSE /\ adm3Data' = [adm3Data EXCEPT ![chunkIndex + 1].properties =
                    processFeature(adm3Data[chunkIndex + 1], adm1Tree, adm1Data,
                                   adm2ByState).properties]
          /\ overallBbox' = UpdateOverall(overallBbox, bbox(adm3Data[chunkIndex + 1]))
          /\ chunkIndex' = chunkIndex + 1
          /\ UNCHANGED <<pc, exitCode>>
  /\ UNCHANGED <<prog, files, adm1Data, adm2Data, adm1Tree, adm2ByState, chunkSize, i,
                 processedCount, output, adm3Input, diags, normVars>>

\* outputData = {type, features: outputFeatures, bbox: overallBbox};
\* fs.writeFileSync('output.geojson', JSON.stringify(outputData, null, 2))
First10Write ==
  /\ prog = "first10" /\ pc = "loop"
  /\ chunkIndex = Len(first10Features)
  /\ output' = <<Piece("open")>> \o JoinRecords(first10Features)
               \o <<Piece("rbracket"), Piece("comma"), BboxPiece(overallBbox),
                    Piece("rbrace")>>
  /\ pc' = "done"
  /\ UNCHANGED <<prog, files, exitCode, adm1Data, adm2Data, adm3Data, adm1Tree,
                 adm2ByState, chunkSize, i, chunkIndex, overallBbox, processedCount,
                 adm3Input, diags, normVars>>

Next ==
  \/ Load
  \/ WriteHeader
  \/ SkipInvalidFeature
  \/ EmitFeature
  \/ NextChunk
  \/ Close
  \/ LegacyLoad
  \/ ChunkFeature
  \/ ChunkFlush
  \/ ChunkHeader
  \/ ChunkClose
  \/ First10Feature
  \/ First10Write

Spec == Init /\ [][Next]_vars

\* ------------------------------------------------------------------------
\* The single-level linkers: the in-memory linker (src/linkParents.js) and
\* the streamed ADM1 and ADM2 linkers (src/unnamed/part_000).  parent.features
\* is held in adm1Data (file "adm1"), the child features in adm3Data (file
\* "adm3"), the loop index in i.  None of them guards its features: the
\* bounding box, getPolygons and the property assignments are outside the
\* try block of the predicates.
\* ------------------------------------------------------------------------
SinglePrograms == {"memory", "adm1stream", "adm2stream"}

InitSingle ==
  /\ prog \in SinglePrograms
  /\ pc = "start"
  /\ files \in {f \in [FileNames -> {"ok", "missing", "unparsable"}] : f["adm2"] = "ok"}
  /\ exitCode = 0
  /\ CascadeIdle
  /\ NormIdle

\* the streamed linkers write the header once the parent file is parsed and
\* before the child file is read; the ADM2 linker checks first that both exist
HeaderWritten ==
  /\ prog # "memory"
  /\ files["adm1"] = "ok"
  /\ prog = "adm2stream" => files["adm3"] # "missing"

\* JSON.parse(fs.readFileSync(...)) of the two files, and the header
SingleLoad ==
  /\ prog \in SinglePrograms /\ pc = "start"
  /\ output' = IF HeaderWritten THEN <<Piece("open")>> ELSE << >>
  /\ IF files["adm1"] # "ok" \/ files["adm3"] # "ok"
     THEN Fatal /\ UNCHANGED <<adm1Data, adm3Data, adm3Input, i>>
     ELSE /\ \E a1 \in Adm1Files, a3 \in Adm3Files :
               /\ adm1Data' = a1
               /\ adm3Data' = a3
               /\ adm3Input' = a3
          /\ i' = 0
          /\ pc' = "loop"
          /\ UNCHANGED exitCode
  /\ UNCHANGED <<prog, files, adm2Data, adm1Tree, adm2ByState, chunkSize, chunkIndex,
                 overallBbox, processedCount, diags, normVars>>

\* the statements of the loop body that throw out of it: turf.bbox(child),
\* the assignment of .bbox to a null feature, feature.geometry.type of an
\* absent geometry, the assignment to absent properties
SingleThrows(f) == f.isNull \/ bbox(f).err \/ f.geometry.type = "null" \/ ~f.hasProps

\* the parents taken from the end of the file
SingleParentsReversed(features) ==
  [k \in DOMAIN features |->
     [index |-> k, feature |-> features[Len(features) + 1 - k]]]

\* for (const parentFeature of parent.features)
SingleParents(features) ==
  [k \in DOMAIN features |-> [index |-> k, feature |-> features[k]]]

\* the scan of the parents in file order: the first parent with a pair for
\* which within, overlap or intersects holds; a throwing pair is passed over;
\* parent_id and parent_name are null when no parent was found
SingleMatch(parentFeatures, childFeature) ==
  Step2(SingleParents(parentFeatures), getPolygons(childFeature), 1,
        [foundParent |-> FALSE, parent_id |-> Null, parent_name |-> Null,
         visited |-> 0])

\* childFeature.properties.parent_id = ...; .parent_name = ...
SingleAssign(props, m) ==
  [props EXCEPT !.parent_id = m.parent_id, !.parent_name = m.parent_name]

\* the history entry of one linked child
SingleDiag(g, m, out) ==
  [index |-> g, ended |-> IF m.foundParent THEN "matched" ELSE "unmatched",
   matchedState |-> Null, foundParent |-> m.foundParent, lookedUp |-> FALSE,
   visited |-> m.visited, out |-> out]

\* the rest of the loop body once the scan has returned m
SingleEmit(m) ==
  /\ adm3Data' = [adm3Data EXCEPT ![i + 1].properties = SingleAssign(@, m)]
  /\ output' = IF prog = "memory" THEN output
               ELSE output
                    \o <<RecordPiece(SingleAssign(adm3Data[i + 1].properties, m),
                                     JsonBox(bbox(adm3Data[i + 1]).box))>>
                    \o Separator(i, Len(adm3Data))
  /\ diags' = Append(diags, SingleDiag(i, m, SingleAssign(adm3Data[i + 1].properties, m)))
  /\ i' = i + 1

\* one iteration over the child features
SingleFeature ==
  /\ prog \in SinglePrograms /\ pc = "loop"
  /\ i < Len(adm3Data)
  /\ IF SingleThrows(adm3Data[i + 1])
     THEN Fatal /\ UNCHANGED <<adm3Data, output, diags, i>>
     ELSE SingleEmit(SingleMatch(adm1Data, adm3Data[i + 1])) /\ UNCHANGED <<pc, exitCode>>
  /\ UNCHANGED <<prog, files, adm1Data, adm2Data, adm1Tree, adm2ByState, chunkSize,
                 chunkIndex, overallBbox, processedCount, adm3Input, normVars>>

\* JSON.stringify(child): the features with their bbox
RECURSIVE SingleJoin(_)
SingleJoin(fs) ==
  IF fs = << >> THEN << >>
  ELSE <<RecordPiece(Head(fs).properties, JsonBox(bbox(Head(fs)).box))>>
       \o (IF Tail(fs) = << >> THEN << >> ELSE <<Piece("comma")>>)
       \o SingleJoin(Tail(fs))

\* after the loop: the whole document (in-memory linker) or the closing text
SingleClose ==
  /\ prog \in SinglePrograms /\ pc = "loop"
  /\ i = Len(adm3Data)
  /\ output' = IF prog = "memory"
               THEN <<Piece("open")>> \o SingleJoin(adm3Data)
                    \o <<Piece("rbracket"), Piece("rbrace")>>
               ELSE output \o <<Piece("rbracket"), Piece("rbrace")>>
  /\ pc' = "done"
  /\ UNCHANGED <<prog, files, exitCode, adm1Data, adm2Data, adm3Data, adm1Tree,
                 adm2ByState, chunkSize, i, chunkIndex, overallBbox, processedCount,
                 adm3Input, diags, normVars>>

NextSingle ==
  \/ SingleLoad
  \/ SingleFeature
  \/ SingleClose

SpecSingle == InitSingle /\ [][NextSingle]_vars

\* ------------------------------------------------------------------------
\* The key normalizer on its own: a label grouped under (labelA), a name
\* looked up (labelB), and a key normalized again
\* ------------------------------------------------------------------------
LabelAlphabet == {"m", "M", "e", "eacute", "Eacute", "tm", "sp", "hy", "us"}
ExampleLabels == {<<"M", "sp", "P">>, <<"M", "hy", "P">>, <<"m", "us", "p">>}
Labels == SeqsUpTo(LabelAlphabet, MaxLabelLen) \cup ExampleLabels

InitNorm ==
  /\ prog = "none"
  /\ pc = "off"
  /\ files = [f \in FileNames |-> "ok"]
  /\ exitCode = 0
  /\ CascadeIdle
  /\ labelA \in Labels
  /\ labelB \in Labels
  /\ keyA = << >> /\ keyB = << >> /\ rekeyA = << >>
  /\ npc = "start"

\* the key of the grouping (of labelA) and the key of the lookup (of labelB)
NormalizePair ==
  /\ npc = "start"
  /\ keyA' = GroupKey([properties |-> [parent_name |-> labelA]])
  /\ keyB' = LookupKey(labelB)
  /\ npc' = "keyed"
  /\ UNCHANGED <<prog, pc, files, exitCode, cascadeVars, labelA, labelB, rekeyA>>

\* the same chain applied to a key
Renormalize ==
  /\ npc = "keyed"
  /\ rekeyA' = normalizeKey(keyA)
  /\ npc' = "rekeyed"
  /\ UNCHANGED <<prog, pc, files, exitCode, cascadeVars, labelA, labelB, keyA, keyB>>

NextNorm ==
  \/ NormalizePair
  \/ Renormalize

SpecNorm == InitNorm /\ [][NextNorm]_vars

\* ------------------------------------------------------------------------
\* Properties
\* ------------------------------------------------------------------------
Range(s) == {s[k] : k \in DOMAIN s}

Streaming == prog = "stream"
StreamDone == prog = "stream" /\ pc = "done"

\* the input child of a history entry
ChildOf(d) == adm3Input[d.index + 1]

\* the record pieces of the output, in order
Records(out) == SelectSeq(out, LAMBDA t : t.kind = "record")

\* some (child-part, candidate-part) pair of well-formed parts is related
SomePair(child, cand, Rel(_, _)) ==
  \E a \in Range(getPolygons(child)), b \in Range(getPolygons(cand)) :
     a.ok /\ b.ok /\ Rel(a.r, b.r)

IsWithin(child, cand) == SomePair(child, cand, RectWithin)
Matches(child, cand) ==
  SomePair(child, cand, LAMBDA a, b : RectWithin(a, b) \/ RectOverlap(a, b)
                                       \/ RectIntersects(a, b))

\* some pair of the child and the candidate has a malformed part
SomePairThrows(child, cand) ==
  \E a \in Range(getPolygons(child)), b \in Range(getPolygons(cand)) : ~a.ok \/ ~b.ok

\* the ADM1 features of the index entries
IndexedStates == {adm1Data[adm1Tree[k].index] : k \in DOMAIN adm1Tree}

\* the members of the level-2 group of a state name, as positions in adm2Data
GroupOf(name) ==
  {k \in DOMAIN adm2Data :
     /\ Truthy(adm2Data[k].properties.parent_name)
     /\ normalizeKey(adm2Data[k].properties.parent_name) = normalizeKey(name)}

\* C1: at the end of the streaming run every structurally valid child has
\* exactly one record in the output and an invalid child none; the records
\* are those of the valid children, in input order.
C1_OneRecordPerValidChild ==
  StreamDone =>
    /\ \A g \in 0..(Len(adm3Input) - 1) :
         Cardinality({k \in DOMAIN diags : diags[k].index = g})
           = IF Invalid(adm3Input[g + 1]) THEN 0 ELSE 1
    /\ Len(Records(output)) = Len(diags)
    /\ \A k \in DOMAIN diags :
         /\ Records(output)[k].properties = diags[k].out
         /\ diags[k].out.shapeID = OrNull(ChildOf(diags[k]).properties.shapeID)
         /\ \A j \in DOMAIN diags : j < k => diags[j].index < diags[k].index

\* a finished run over two children in two chunks, one whose bbox failed
\* and one for which a predicate threw
C1_Witness ==
  /\ StreamDone
  /\ chunkSize = 1 /\ Len(adm3Input) = 2 /\ Len(diags) = 2
  /\ \E k \in DOMAIN diags : diags[k].ended = "bbox"
  /\ \E k \in DOMAIN diags :
        \E st \in IndexedStates : SomePairThrows(ChildOf(diags[k]), st)

\* the features array of a document: records separated by single commas
RECURSIVE CommaSeparated(_)
CommaSeparated(body) ==
  IF body = << >> THEN TRUE
  ELSE /\ Head(body).kind = "record"
       /\ \/ Len(body) = 1
          \/ /\ Len(body) >= 3
             /\ body[2].kind = "comma"
             /\ CommaSeparated(SubSeq(body, 3, Len(body)))

Kinds(out) == [k \in DOMAIN out |-> out[k].kind]

\* a document JSON.parse accepts: the header, the comma-separated records,
\* the closing bracket, an optional bbox member, the closing brace
Parseable(out) ==
  \E r \in DOMAIN out :
     /\ out[1].kind = "open"
     /\ r >= 2
     /\ out[r].kind = "rbracket"
     /\ CommaSeparated(SubSeq(out, 2, r - 1))
     /\ Kinds(SubSeq(out, r + 1, Len(out))) \in {<<"rbrace">>, <<"comma", "bbox", "rbrace">>}

\* C2: after the closing text the output of the streaming run is a
\* well-formed document with comma-separated records, whatever features
\* were skipped.
C2_CommaCorrect == StreamDone => Parseable(output)

UniqueMatch(d, st, m) ==
  /\ ~bbox(ChildOf(d)).err
  /\ Truthy(st.properties.shapeName)
  /\ {x \in IndexedStates : Matches(ChildOf(d), x)} = {st}
  /\ {y \in GroupOf(st.properties.shapeName) : Matches(ChildOf(d), adm2Data[y])} = {m}

HasLevel1Match(d) ==
  /\ ~bbox(ChildOf(d)).err
  /\ \E st \in IndexedStates :
        Truthy(st.properties.shapeName) /\ Matches(ChildOf(d), st)

\* a member of the group of the winner of d matches the child
HasLevel2Match(d) ==
  \E y \in GroupOf(d.matchedState) : Matches(ChildOf(d), adm2Data[y])

\* C4: a child with a level-1 winner and no matching member in that
\* state's group (or no group) has parent_name and state_name equal to the
\* winner's name and parent_id null in its record.
C4_Level1Only ==
  Streaming =>
    \A k \in DOMAIN diags :
      (HasLevel1Match(diags[k]) /\ ~HasLevel2Match(diags[k]))
      => /\ Truthy(diags[k].matchedState)
         /\ diags[k].out.parent_name = diags[k].matchedState
         /\ diags[k].out.state_name = diags[k].matchedState
         /\ diags[k].out.parent_id = Null

\* C5: a child without level-1 match has parent_id, parent_name and
\* parent_state null in its record, whatever its input properties, and the
\* grouping table is not looked up for it.
C5_Unmatched ==
  Streaming =>
    \A k \in DOMAIN diags :
      ~HasLevel1Match(diags[k])
      => /\ diags[k].out.parent_id = Null
         /\ diags[k].out.parent_name = Null
         /\ diags[k].out.parent_state = Null
         /\ ~diags[k].lookedUp

HasBboxField(out) == \E k \in DOMAIN out : out[k].kind = "bbox"

\* C8: the final document of every writer carries a bbox member exactly
\* when the running box is finite on all four axes, and never one written
\* as nulls.
C8_BboxIffFinite ==
  pc = "done" =>
    /\ HasBboxField(output) <=> validBbox(overallBbox)
    /\ \A k \in DOMAIN output :
         output[k].kind = "bbox" => \A c \in 1..4 : output[k].bbox[c] # JsonNull

\* C9: when one of the three input files is missing or does not parse, the
\* streaming run ends with exit status 1 and no child is processed, nothing
\* is written.
C9_FatalOnBadInput ==
  (Streaming /\ pc # "start" /\ \E f \in FileNames : files[f] # "ok")
  => /\ pc = "exit"
     /\ exitCode = 1
     /\ diags = << >>
     /\ processedCount = 0
     /\ adm3Data = << >>
     /\ output = << >>

\* the run ended on a file that exists and does not parse
C9_Witness ==
  /\ Streaming /\ pc = "exit" /\ exitCode = 1
  /\ files["adm1"] = "ok" /\ files["adm2"] = "ok" /\ files["adm3"] = "unparsable"

\* C10: a pair on which a predicate throws counts as non-matching and the
\* scan goes on: a child has a level-1 winner exactly when some pair with
\* an indexed state of non-empty name matches, and a level-2 winner exactly
\* when some pair with a member of the winner's group matches; the run
\* does not exit once the files are loaded.
C10_ThrowIsNoMatch ==
  Streaming =>
    /\ \A k \in DOMAIN diags :
         diags[k].ended \in {"matched", "level1", "unmatched"}
         => /\ Truthy(diags[k].matchedState) <=> HasLevel1Match(diags[k])
            /\ diags[k].foundParent
                 <=> (Truthy(diags[k].matchedState) /\ HasLevel2Match(diags[k]))
    /\ pc = "exit" => diags = << >> /\ adm3Input = << >>

\* a child with both winners although pairs threw at both levels before
\* the matching pair
C10_Witness ==
  /\ Streaming
  /\ \E k \in DOMAIN diags :
       /\ diags[k].foundParent
       /\ \A st \in IndexedStates :
            Matches(ChildOf(diags[k]), st) => SomePairThrows(ChildOf(diags[k]), st)
       /\ \A y \in GroupOf(diags[k].matchedState) :
            SomePairThrows(ChildOf(diags[k]), adm2Data[y])

FoldChar(c) ==
  CASE c \in {"m", "M"} -> <<"m">>
    [] c \in {"p", "P"} -> <<"p">>
    [] c \in {"e", "E", "eacute", "Eacute"} -> <<"e">>
    [] c \in {"sp", "hy", "us", "acute"} -> << >>
    [] OTHER -> <<c>>

\* a label without its case, its diacritics and its separators
RECURSIVE Fold(_)
Fold(s) == IF s = << >> THEN << >> ELSE FoldChar(Head(s)) \o Fold(Tail(s))

\* C6: two labels that differ only in case, diacritics or separators
\* (space, hyphen, underscore) get the same key, in grouping and in lookup.
C6_VariantsShareKey ==
  (npc # "start" /\ Fold(labelA) = Fold(labelB)) => keyA = keyB

\* C7: normalizing a key again returns the key.
C7_Idempotent == npc = "rekeyed" => rekeyA = keyA

\* the input files were parsed and every child is structurally valid: not
\* null, with properties and a geometry
ValidChildrenLoaded ==
  /\ \A f \in FileNames : files[f] = "ok"
  /\ pc # "start"
  /\ \A k \in DOMAIN adm3Input : ~Invalid(adm3Input[k])

\* C11: a bounding-box failure of a child is recovered locally in every
\* linker: over structurally valid children, some of whose bounding box
\* cannot be computed, the run never exits, and at its end every child has
\* been processed and the document is closed.
C11_BboxFailureRecovered ==
  ValidChildrenLoaded =>
    /\ pc # "exit" /\ exitCode = 0
    /\ pc = "done" => Len(diags) = Len(adm3Input) /\ Parseable(output)

\* C12: in the streaming run the output is no parseable document before the
\* closing text is appended: not before the header, not after the header,
\* not after any record; a parseable output is that of a closed run.
C12_ParseableOnlyClosed ==
  Streaming => (Parseable(output) => pc = "done")

\* the last record is appended, the closing text is not: two records,
\* separated by a comma, behind the header
C12_Witness ==
  /\ Streaming /\ pc = "loop"
  /\ i >= totalFeatures
  /\ Kinds(output) = <<"open", "record", "comma", "record">>

\* the level-2 features that the grouping table holds under some key
Grouped ==
  UNION {{adm2ByState[key][k].index : k \in DOMAIN adm2ByState[key]} :
           key \in DOMAIN adm2ByState}

\* the parent label of a level-2 feature is absent, empty, or has the empty key
NoUsableLabel(f) ==
  \/ ~Truthy(f.properties.parent_name)
  \/ stripNonWord(nfkd(toLowerCase(f.properties.parent_name))) = << >>

\* C13: a level-2 feature whose parent label is absent, empty or normalizes
\* to the empty key is in no group of the table, and a child whose level-1
\* winner has a name of empty key gets no level-2 candidate, hence no
\* level-2 parent.
C13_NoGroupForEmptyKey ==
  (Streaming /\ pc \notin {"start", "exit"}) =>
    /\ \A k \in DOMAIN adm2Data : NoUsableLabel(adm2Data[k]) => k \notin Grouped
    /\ << >> \notin DOMAIN adm2ByState
    /\ \A d \in DOMAIN diags :
         (Truthy(diags[d].matchedState)
            /\ stripNonWord(nfkd(toLowerCase(diags[d].matchedState))) = << >>)
         => ~diags[d].foundParent

CandidatesOf(d) ==
  [c \in DOMAIN SelectSeq(adm1Tree,
                          LAMBDA e : RectIntersects(e.box, bbox(ChildOf(d)).box)) |->
     adm1Data[SelectSeq(adm1Tree,
                        LAMBDA e : RectIntersects(e.box, bbox(ChildOf(d)).box))[c].index]]

\* some pair of well-formed parts is within or intersects
Matches1(child, cand) ==
  SomePair(child, cand, LAMBDA a, b : RectWithin(a, b) \/ RectIntersects(a, b))

\* the positions of the candidates that match the child of d
MatchingAt(d) == {c \in DOMAIN CandidatesOf(d) : Matches1(ChildOf(d), CandidatesOf(d)[c])}

\* the first of a non-empty set of positions
First(S) == CHOOSE c \in S : \A x \in S : c <= x

\* d went through the level-1 loop
Scanned(d) == d.ended \in {"matched", "level1", "unmatched"}

\* C15: the level-1 winner is the first candidate, in index-return order,
\* with a pair that is within or intersects: the state recorded for the
\* child is that candidate's name (no later candidate replaces it), and
\* there is no winner when no candidate matches.
C15_FirstLevel1Wins ==
  Streaming =>
    \A k \in DOMAIN diags :
      Scanned(diags[k]) =>
        IF MatchingAt(diags[k]) = {}
        THEN diags[k].matchedState = Null
        ELSE diags[k].matchedState
               = CandidatesOf(diags[k])[First(MatchingAt(diags[k]))].properties.shapeName

\* the members of the group of the winner of d that match the child
MatchingMembers(d) ==
  {y \in GroupOf(d.matchedState) : Matches(ChildOf(d), adm2Data[y])}

\* the child of d got a level-2 parent and its record carries the identity
\* of the first matching member of the group, in stored order
FirstMemberWins(d) ==
  /\ MatchingMembers(d) # {}
  /\ d.out.parent_id = OrNull(adm2Data[First(MatchingMembers(d))].properties.shapeID)
  /\ d.out.parent_name = OrNull(adm2Data[First(MatchingMembers(d))].properties.shapeName)

\* C16 as stated: the level-2 winner is the first member of the group, in
\* stored order, with a matching pair, and the members behind the winner
\* are still iterated: the loop goes into every member of the group.
C16_RestStillIterated ==
  Streaming =>
    \A k \in DOMAIN diags :
      diags[k].foundParent
      => /\ FirstMemberWins(diags[k])
         /\ diags[k].visited = Cardinality(GroupOf(diags[k].matchedState))

\* C16 amended: the level-2 winner is the first member of the group, in
\* stored order, with a matching pair, and the scan stops at the winner: the
\* loop goes into the members up to the winner and into none behind it.
C16_StopsAtWinner ==
  Streaming =>
    \A k \in DOMAIN diags :
      diags[k].foundParent
      => /\ FirstMemberWins(diags[k])
         /\ diags[k].visited
              = Cardinality({y \in GroupOf(diags[k].matchedState) :
                               y <= First(MatchingMembers(diags[k]))})

\* a child with two matching members in the group of its state: the first
\* is the winner, the second lies behind it
C16_Witness ==
  /\ Streaming
  /\ \E k \in DOMAIN diags :
       /\ diags[k].foundParent
       /\ Cardinality(MatchingMembers(diags[k])) = 2
       /\ diags[k].visited = 1

\* C17: a child whose bounding box cannot be computed is evaluated against
\* all the entries of the level-1 index: when an indexed state of non-empty
\* name matches it, the child has a level-1 winner, and a level-2 parent
\* when a member of the winner's group matches it.
C17_FallbackToAll ==
  Streaming =>
    \A k \in DOMAIN diags :
      (bbox(ChildOf(diags[k])).err
         /\ \E st \in IndexedStates :
               Truthy(st.properties.shapeName) /\ Matches(ChildOf(diags[k]), st))
      => /\ Truthy(diags[k].matchedState)
         /\ MatchingMembers(diags[k]) # {} => diags[k].foundParent

\* box o encloses box b
Encloses(o, b) == o[1] <= b[1] /\ o[2] <= b[2] /\ o[3] >= b[3] /\ o[4] >= b[4]

\* the minima do not increase and the maxima do not decrease in a step
WidensOnly ==
  /\ overallBbox'[1] <= overallBbox[1] /\ overallBbox'[2] <= overallBbox[2]
  /\ overallBbox'[3] >= overallBbox[3] /\ overallBbox'[4] >= overallBbox[4]

\* the running box encloses the box of every child processed so far whose
\* box was computed, and the bbox of every record written so far that has one
EnclosesProcessed ==
  /\ \A k \in DOMAIN diags :
       ~bbox(ChildOf(diags[k])).err
       => Encloses(overallBbox, bbox(ChildOf(diags[k])).box)
  /\ \A k \in DOMAIN output :
       (output[k].kind = "record" /\ output[k].bbox # << >>
          /\ \A c \in 1..4 : output[k].bbox[c] # JsonNull)
       => Encloses(overallBbox, output[k].bbox)

\* C18: the running bounding box of the streaming run only widens: in no
\* step a minimum increases or a maximum decreases; after each feature
\* whose box was computed it encloses that box, and so at the end it
\* encloses the bbox of every record that has one.
C18_OnlyWidens ==
  /\ [][Streaming => WidensOnly]_vars
  /\ [](Streaming => EnclosesProcessed)

\* the running box after two children with computed boxes, wider than the
\* box of either
C18_Witness ==
  /\ Streaming /\ Len(diags) = 2
  /\ \A k \in DOMAIN diags :
       /\ ~bbox(ChildOf(diags[k])).err
       /\ validBbox(bbox(ChildOf(diags[k])).box)
       /\ overallBbox # bbox(ChildOf(diags[k])).box

\* the fold of the min/max updates of the run over a list of children
RECURSIVE FoldRun(_, _)
FoldRun(overall, children) ==
  IF children = << >> THEN overall
  ELSE FoldRun(IF Invalid(Head(children)) THEN overall
               ELSE UpdateOverall(overall, bbox(Head(children))),
               Tail(children))

\* the children of the run in the order p
Permuted(p) == [k \in DOMAIN adm3Input |-> adm3Input[p[k]]]

\* C19: the final dataset box does not depend on the order of the
\* children: it is the fold of the min/max updates over the children of
\* the run taken in any order.
C19_OrderIndependent ==
  StreamDone =>
    \A p \in PermsOf(Len(adm3Input)) : FoldRun(SeedBox, Permuted(p)) = overallBbox

\* a finished run over two children with different finite boxes
C19_Witness ==
  /\ StreamDone /\ Len(adm3Input) = 2 /\ Len(diags) = 2
  /\ validBbox(bbox(adm3Input[1]).box) /\ validBbox(bbox(adm3Input[2]).box)
  /\ ~bbox(adm3Input[1]).err /\ ~bbox(adm3Input[2]).err
  /\ bbox(adm3Input[1]).box # bbox(adm3Input[2]).box

\* sequence a is an initial part of sequence b
IsPrefix(a, b) == Len(a) <= Len(b) /\ SubSeq(b, 1, Len(a)) = a

\* how many pieces of a kind a text holds
CountKind(out, kind) == Cardinality({k \in DOMAIN out : out[k].kind = kind})

\* a text that began with the header, written once, and that is closed at
\* most once, at its end
HeaderFirst(out) ==
  out # << >> =>
    /\ out[1].kind = "open" /\ CountKind(out, "open") = 1
    /\ CountKind(out, "rbrace") <= 1
    /\ \A k \in DOMAIN out : out[k].kind = "rbrace" => k = Len(out)

\* a step of a writer leaves what the file holds in place, and may add to it
AppendsOnly == prog \in Programs => IsPrefix(output, output')

\* C20: in every writer of the ADM3 output the destination is opened, then
\* appended to, then closed: no write shortens or replaces what the file
\* holds, the file begins with the header, written once, and the closing
\* text stands once, at the end of the file of a finished run.
C20_OpenAppendClose ==
  /\ [][AppendsOnly]_vars
  /\ [](prog \in Programs => HeaderFirst(output))
  /\ []((prog \in Programs /\ pc = "done") => CountKind(output, "rbrace") = 1)

\* a step of the feature loop of the streaming run leaves the loaded ADM1
\* and ADM2 features, the level-1 index and the level-2 groups as they are
SourcesUnchanged ==
  (Streaming /\ pc = "loop") => UNCHANGED <<adm1Data, adm2Data, adm1Tree, adm2ByState>>

\* a step of the feature loop leaves the child features as they were parsed
ChildrenUnchanged == (Streaming /\ pc = "loop") => UNCHANGED adm3Data

\* C21: resolving a child modifies none of the loaded data: not the ADM1
\* and ADM2 features, not the level-1 index, not the level-2 groups, and
\* not the input child features, which stay as they were parsed.
C21_SourceDataUnchanged ==
  /\ [][SourcesUnchanged]_vars
  /\ [][ChildrenUnchanged]_vars
  /\ [](Streaming => adm3Data = adm3Input)

\* the input properties of the child of d carry no resolution property
CleanInput(d) ==
  /\ ChildOf(d).properties.parent_id = Null
  /\ ChildOf(d).properties.parent_name = Null
  /\ ChildOf(d).properties.state_name = Null
  /\ ChildOf(d).properties.parent_state = Null

\* the three shapes of a record
FullMatchShape(d) ==
  /\ FirstMemberWins(d)
  /\ d.out.parent_state # Null
  /\ d.out.state_name = Null

Level1OnlyShape(d) ==
  /\ d.out.parent_id = Null
  /\ d.out.parent_name # Null
  /\ d.out.parent_name = d.out.state_name
  /\ d.out.parent_name = d.out.parent_state
  /\ \E st \in IndexedStates : st.properties.shapeName = d.out.parent_state

UnmatchedShape(d) ==
  /\ d.out.parent_id = Null /\ d.out.parent_name = Null
  /\ d.out.state_name = Null /\ d.out.parent_state = Null

\* how many of the three shapes the record of d has
ShapesOf(d) ==
  Cardinality({n \in {"full", "level1", "unmatched"} :
                 \/ n = "full" /\ FullMatchShape(d)
                 \/ n = "level1" /\ Level1OnlyShape(d)
                 \/ n = "unmatched" /\ UnmatchedShape(d)})

\* C22: the record of a child whose input properties carry none of
\* parent_id, parent_name, state_name, parent_state has exactly one of the
\* three shapes: full match (parent_id and parent_name of the level-2
\* winner, parent_state set, state_name null), level-1 only (parent_id null,
\* parent_name = state_name = parent_state = the level-1 name), unmatched
\* (all four null).
C22_ThreeShapes ==
  Streaming =>
    \A k \in DOMAIN diags : CleanInput(diags[k]) => ShapesOf(diags[k]) = 1

\* a run that wrote a full match and an unmatched record, of children with
\* clean input properties
C22_Witness ==
  /\ Streaming
  /\ \E j, k \in DOMAIN diags :
       /\ CleanInput(diags[j]) /\ FullMatchShape(diags[j])
       /\ CleanInput(diags[k]) /\ UnmatchedShape(diags[k])

\* the positions of the matching candidates of non-empty name
NamedAt(d) ==
  {c \in MatchingAt(d) : Truthy(CandidatesOf(d)[c].properties.shapeName)}

\* C23: a level-1 candidate that matches the child and whose shapeName is
\* empty or absent is not the winner: the winner is the first matching
\* candidate of non-empty name, also behind an unnamed one, and when no
\* such candidate matches the child ends in the unmatched branch, without
\* a lookup in the level-2 groups; the empty name assigned by an unnamed
\* match is written as a null parent_state.
C23_UnnamedDoesNotWin ==
  Streaming =>
    \A k \in DOMAIN diags :
      Scanned(diags[k]) =>
        IF NamedAt(diags[k]) = {}
        THEN /\ ~Truthy(diags[k].matchedState)
             /\ diags[k].ended = "unmatched"
             /\ ~diags[k].lookedUp /\ diags[k].visited = 0
             /\ MatchingAt(diags[k]) # {} => diags[k].out.parent_state = Null
        ELSE /\ diags[k].matchedState
                  = CandidatesOf(diags[k])[First(NamedAt(diags[k]))].properties.shapeName
             /\ diags[k].lookedUp

\* a child whose first matching candidate has an empty name and that has a
\* named matching candidate behind it
C23_Witness ==
  /\ Streaming
  /\ \E k \in DOMAIN diags :
       /\ Scanned(diags[k])
       /\ NamedAt(diags[k]) # {}
       /\ First(MatchingAt(diags[k])) < First(NamedAt(diags[k]))

\* the positions, in the parent file, of the parents that match the child of d
MatchingParents(d) == {y \in DOMAIN adm1Data : Matches(ChildOf(d), adm1Data[y])}

\* the assignment of a child, as a function of the parent list and the
\* child alone: the identity of the first matching parent in file order,
\* null for both when there is none
AssignedFirstParent(d) ==
  IF MatchingParents(d) = {}
  THEN d.out.parent_id = Null /\ d.out.parent_name = Null
  ELSE /\ d.out.parent_id = OrNull(adm1Data[First(MatchingParents(d))].properties.shapeID)
       /\ d.out.parent_name
            = OrNull(adm1Data[First(MatchingParents(d))].properties.shapeName)

\* C24: the in-memory linker and the streamed linkers compute the same
\* assignment: in each of them every child gets the parent_id and the
\* parent_name of the first parent, in file order, with a matching pair
\* (within, overlaps or intersects), null for both when none matches; the
\* records of the finished run carry that assignment, child by child.
C24_SameAssignment ==
  prog \in SinglePrograms =>
    /\ \A k \in DOMAIN diags :
         /\ diags[k].index = k - 1
         /\ AssignedFirstParent(diags[k])
    /\ pc = "done" =>
         /\ Len(Records(output)) = Len(adm3Input)
         /\ Len(diags) = Len(adm3Input)
         /\ \A k \in DOMAIN diags : Records(output)[k].properties = diags[k].out

\* a finished run of the in-memory linker over two children: one with two
\* matching parents, one with none
C24_Witness ==
  /\ prog = "memory" /\ pc = "done" /\ Len(diags) = 2
  /\ \E k \in DOMAIN diags : Cardinality(MatchingParents(diags[k])) >= 2
  /\ \E k \in DOMAIN diags : MatchingParents(diags[k]) = {}

====
